---- MODULE Spec2Model ----
(***************************************************************************)
(* Model of the Merkle tree of src/src/lib.rs: construct, root, verify,    *)
(* prove and verify_proof over a flat node array.                          *)
(*                                                                         *)
(* Byte strings (Data and Hash are both Vec<u8>) are sequences of units.   *)
(* A unit is either one raw byte or one SHA-256 output, kept as the term   *)
(* of the bytes it digests, so two digests are equal exactly when their    *)
(* inputs are equal byte strings (the digest is collision-free) and the    *)
(* concatenation of two hashes is the same byte string whether it reaches  *)
(* hash_data from hash_concat or from a caller's data block.               *)
(***************************************************************************)
EXTENDS Integers, Sequences, FiniteSets, TLC

VARIABLES profile, input, nodes, abort, phase, call

vars == <<profile, input, nodes, abort, phase, call>>

\* ---------------------------------------------------------------- bounds
\* Largest number of blocks handed to construct.
MaxLeaves == 5

\* Largest number of blocks of a sequence handed to verify that is not a
\* one-block change of the constructed sequence.
MaxForged == 1

\* Largest n of the inputs example_data(n).
MaxExample == 9

\* Width of usize in the model (the shifts of next_power_of_2 reach 16).
UsizeBits == 30

\* ------------------------------------------------------------ byte strings
Byte(k) == [t |-> "byte", v |-> k, d |-> <<>>]

\* The one-byte blocks callers use (example_data builds vec![i as u8]).
RawBlocks == {<<Byte(0)>>, <<Byte(1)>>}

\* Vec::new(): the value of a node slot nothing was written to.
EmptyHash == <<>>

NoneOpt == [some |-> FALSE, v |-> <<>>]
SomeOpt(x) == [some |-> TRUE, v |-> x]

Range(s) == {s[k] : k \in 1..Len(s)}

\* nodes[i] with the source's 0-based index.
At(s, i) == s[i + 1]

\* ------------------------------------------------------------------ utils
\* sha2::Sha256::digest(data).to_vec(): one 32-byte unit naming its input.
hash_data(data) == <<[t |-> "sha256", v |-> 0, d |-> data]>>

\* hash_concat losing its first operand.
hash_concat_second_only(h1, h2) == hash_data(h2)

\* h1.iter().chain(h2) then hash_data.
hash_concat(h1, h2) == hash_data(h1 \o h2)

UsizeMax == 2 ^ UsizeBits - 1

RECURSIVE BitOr(_, _)
BitOr(a, b) ==
    IF a = 0 THEN b
    ELSE IF b = 0 THEN a
    ELSE (IF a % 2 = 1 \/ b % 2 = 1 THEN 1 ELSE 0) + 2 * BitOr(a \div 2, b \div 2)

Smear(val, k) == BitOr(val, val \div (2 ^ k))

\* Checked arithmetic of the two build profiles: a debug build panics on
\* overflow, a release build wraps.
Builds == {"debug", "release"}

CheckedSub(a, b, build) ==
    IF a >= b THEN [abort |-> "none", val |-> a - b]
    ELSE IF build = "debug" THEN [abort |-> "arith_overflow", val |-> 0]
    ELSE [abort |-> "none", val |-> a - b + UsizeMax + 1]

CheckedAdd(a, b, build) ==
    IF a + b <= UsizeMax THEN [abort |-> "none", val |-> a + b]
    ELSE IF build = "debug" THEN [abort |-> "arith_overflow", val |-> 0]
    ELSE [abort |-> "none", val |-> a + b - (UsizeMax + 1)]

\* next_power_of_2 without the bit smearing: the input comes back unchanged.
next_power_of_2_no_smear(inp, build) ==
    LET dec == CheckedSub(inp, 1, build)
    IN  IF dec.abort # "none" THEN dec ELSE CheckedAdd(dec.val, 1, build)

next_power_of_2(inp, build) ==
    LET dec == CheckedSub(inp, 1, build)
    IN  IF dec.abort # "none" THEN dec
        ELSE LET v1 == Smear(dec.val, 1)
                 v2 == Smear(v1, 2)
                 v4 == Smear(v2, 4)
                 v8 == Smear(v4, 8)
                 v16 == Smear(v8, 16)
             IN  CheckedAdd(v16, 1, build)

\* ----------------------------------------------------------- construction
hash_internal_node(left, right) ==
    IF right.some THEN hash_concat(left, right.v) ELSE hash_data(left)

\* construct_upper_level rehashing the unpaired node alone.
construct_upper_level_rehash(lvl) ==
    [k \in 1..((Len(lvl) + 1) \div 2) |->
        IF 2 * k <= Len(lvl)
        THEN hash_internal_node(lvl[2 * k - 1], SomeOpt(lvl[2 * k]))
        ELSE hash_internal_node(lvl[2 * k - 1], NoneOpt)]

\* construct_upper_level forgetting the unpaired node.
construct_upper_level_drop(lvl) ==
    [k \in 1..(Len(lvl) \div 2) |->
        hash_internal_node(lvl[2 * k - 1], SomeOpt(lvl[2 * k]))]

construct_upper_level(lvl) ==
    [k \in 1..((Len(lvl) + 1) \div 2) |->
        IF 2 * k <= Len(lvl)
        THEN hash_internal_node(lvl[2 * k - 1], SomeOpt(lvl[2 * k]))
        ELSE lvl[2 * k - 1]]

\* nodes[start..start + len(level)].clone_from_slice(&level)
CloneFromSlice(ns, start, lvl) ==
    [k \in 1..Len(ns) |->
        IF k > start /\ k <= start + Len(lvl) THEN lvl[k - start] ELSE ns[k]]

\* The while loop of build_internal_nodes and the final nodes[0] = ... .
RECURSIVE BuildLoop(_, _, _, _)
BuildLoop(ns, parent_nodes, upper_level_start, build) ==
    IF Len(parent_nodes) > 1
    THEN LET up == construct_upper_level(parent_nodes)
             st == CheckedSub(upper_level_start, Len(up), build)
         IN  IF st.abort # "none" THEN [abort |-> st.abort, nodes |-> ns]
             ELSE IF st.val + Len(up) > Len(ns)
                  THEN [abort |-> "slice_index", nodes |-> ns]
                  ELSE BuildLoop(CloneFromSlice(ns, st.val, up), up, st.val, build)
    ELSE IF Len(parent_nodes) = 0
    THEN [abort |-> "remove_index", nodes |-> ns]
    ELSE [abort |-> "none",
          nodes |-> [ns EXCEPT ![1] = parent_nodes[1]]]

build_internal_nodes(ns, count_internal_nodes, build) ==
    LET parent_nodes ==
            construct_upper_level(SubSeq(ns, count_internal_nodes + 1, Len(ns)))
    IN  IF count_internal_nodes < Len(parent_nodes)
        THEN [abort |-> "none", nodes |-> ns]
        ELSE LET upper_level_start == count_internal_nodes - Len(parent_nodes)
             IN  BuildLoop(CloneFromSlice(ns, upper_level_start, parent_nodes),
                           parent_nodes, upper_level_start, build)

\* vec![Vec::new(); n] panics with "capacity overflow" when n elements of
\* size_of::<Vec<u8>>() = 3 words exceed isize::MAX bytes.
AllocLimit == (2 ^ (UsizeBits - 1) - 1) \div (3 * ((UsizeBits + 7) \div 8))

build_tree_from_leaves(leaves, build) ==
    LET count_leaves == Len(leaves)
        np == next_power_of_2(count_leaves, build)
    IN  IF np.abort # "none" THEN [abort |-> np.abort, nodes |-> <<>>]
        ELSE
        LET ci == CheckedSub(np.val, 1, build)
        IN  IF ci.abort # "none" THEN [abort |-> ci.abort, nodes |-> <<>>]
            ELSE
            LET total == CheckedAdd(ci.val, count_leaves, build)
            IN  IF total.abort # "none" THEN [abort |-> total.abort, nodes |-> <<>>]
                ELSE IF total.val > AllocLimit
                THEN [abort |-> "capacity_overflow", nodes |-> <<>>]
                ELSE IF ci.val > total.val
                THEN [abort |-> "slice_index", nodes |-> <<>>]
                ELSE build_internal_nodes(
                        [k \in 1..total.val |->
                            IF k > ci.val THEN leaves[k - ci.val] ELSE EmptyHash],
                        ci.val, build)

construct(inp, build) ==
    build_tree_from_leaves([k \in 1..Len(inp) |-> hash_data(inp[k])], build)

root(ns) == At(ns, 0)

\* ------------------------------------------------------------- the model
NoProof == [kind |-> "None", hashes |-> <<>>]

NoCall == [op |-> "none", data |-> <<>>, proved |-> <<>>, proof |-> NoProof,
           blocks |-> <<>>, result |-> "none"]

RECURSIVE SeqsUpTo(_, _)
SeqsUpTo(S, n) ==
    IF n = 0 THEN {<<>>}
    ELSE LET shorter == SeqsUpTo(S, n - 1)
         IN  shorter \cup {Append(s, x) : s \in {t \in shorter : Len(t) = n - 1}, x \in S}

\* A 64-byte block: the digests of two one-byte blocks, one after the other.
CatBlock == hash_data(<<Byte(0)>>) \o hash_data(<<Byte(1)>>)

Blocks == RawBlocks \cup {CatBlock}

\* example_data(n): the blocks [0], [1], ..., [n - 1].
example_data(n) == [k \in 1..n |-> <<Byte(k - 1)>>]

Inputs ==
    SeqsUpTo(Blocks, MaxLeaves) \cup {example_data(n) : n \in 0..MaxExample}

\* A program is compiled in one profile. The tree is never mutated after
\* construct and every query is a function of the tree and its arguments,
\* so a behaviour constructs a tree and makes one query on it: verify, or
\* prove followed by verify_proof with the proof prove returned.
Init ==
    /\ profile \in Builds
    /\ input = <<>>
    /\ nodes = <<>>
    /\ abort = "none"
    /\ phase = "new"
    /\ call = NoCall

Construct ==
    /\ phase = "new"
    /\ \E inp \in Inputs :
          LET t == construct(inp, profile)
          IN  /\ input' = inp
              /\ nodes' = t.nodes
              /\ abort' = t.abort
              /\ phase' = IF t.abort = "none" THEN "built" ELSE "aborted"
    /\ UNCHANGED <<profile, call>>

\* ---------------------------------------------------------------- queries
Left == "Left"
Right == "Right"

\* self.nodes.iter().position(|hash| *hash == h)
Position(ns, h) ==
    LET hits == {i \in 0..(Len(ns) - 1) : At(ns, i) = h}
    IN  IF hits = {} THEN NoneOpt
        ELSE SomeOpt(CHOOSE i \in hits : \A j \in hits : i <= j)

\* The while loop of prove; indexing self.nodes out of range panics.
RECURSIVE ProveWalk(_, _, _)
ProveWalk(ns, current_index, proof_hashes) ==
    IF current_index > 0
    THEN LET sibling_index ==
                 IF current_index % 2 = 0 THEN current_index - 1 ELSE current_index + 1
             direction == IF current_index % 2 = 0 THEN Right ELSE Left
         IN  IF sibling_index >= Len(ns)
             THEN [kind |-> "panic", hashes |-> proof_hashes]
             ELSE LET pushed == Append(proof_hashes,
                                       [direction |-> direction,
                                        hash |-> At(ns, sibling_index)])
                  IN  IF current_index = 1
                      THEN [kind |-> "Some", hashes |-> pushed]
                      ELSE ProveWalk(ns, (current_index - 1) \div 2, pushed)
    ELSE [kind |-> "Some", hashes |-> proof_hashes]

prove(ns, data) ==
    LET pos == Position(ns, hash_data(data))
    IN  IF ~pos.some THEN NoProof
        ELSE LET walked == ProveWalk(ns, pos.v, <<>>)
             IN  IF walked.kind = "Some" /\ walked.hashes = <<>> THEN NoProof
                 ELSE walked

RECURSIVE Fold(_, _, _)
Fold(hashes, k, current_hash) ==
    IF k > Len(hashes) THEN current_hash
    ELSE Fold(hashes, k + 1,
              IF hashes[k].direction = Left
              THEN hash_concat(current_hash, hashes[k].hash)
              ELSE hash_concat(hashes[k].hash, current_hash))

verify_proof(data, proof, root_hash) ==
    Fold(proof.hashes, 1, hash_data(data)) = root_hash

\* construct panics inside verify as it does outside it.
verify(inp, root_hash, build) ==
    LET t == construct(inp, build)
    IN  IF t.abort # "none" THEN "abort"
        ELSE IF root(t.nodes) = root_hash THEN "true" ELSE "false"

\* ------------------------------------------------------------ the callers
\* Byte strings that are two sibling node hashes, one after the other.
ConcatBlocks(ns) ==
    {At(ns, i) \o At(ns, i + 1) :
        i \in {j \in 1..(Len(ns) - 2) : j % 2 = 1}}

DataPool(ns) == Blocks \cup ConcatBlocks(ns)

QueryData(inp, ns) == Range(inp) \cup DataPool(ns)

OneBlockChanged(inp, ns) ==
    {[inp EXCEPT ![k] = d] : k \in 1..Len(inp), d \in DataPool(ns)} \ {inp}

VerifyInputs(inp, ns) ==
    {inp} \cup OneBlockChanged(inp, ns) \cup SeqsUpTo(DataPool(ns), MaxForged)

Prove ==
    /\ phase = "built"
    /\ \E data \in QueryData(input, nodes) :
          call' = [op |-> "prove", data |-> data, proved |-> data,
                   proof |-> prove(nodes, data), blocks |-> <<>>,
                   result |-> "none"]
    /\ phase' = "proved"
    /\ UNCHANGED <<profile, input, nodes, abort>>

\* verify_proof with the proof the preceding prove returned.
VerifyProof ==
    /\ phase = "proved"
    /\ call.proof.kind = "Some"
    /\ \E data \in QueryData(input, nodes) :
          call' = [call EXCEPT
                     !.op = "verify_proof",
                     !.data = data,
                     !.result = IF verify_proof(data, call.proof, root(nodes))
                                THEN "true" ELSE "false"]
    /\ phase' = "done"
    /\ UNCHANGED <<profile, input, nodes, abort>>

Verify ==
    /\ phase = "built"
    /\ \E inp \in VerifyInputs(input, nodes) :
          call' = [op |-> "verify", data |-> <<>>, proved |-> <<>>,
                   proof |-> NoProof, blocks |-> inp,
                   result |-> verify(inp, root(nodes), profile)]
    /\ phase' = "done"
    /\ UNCHANGED <<profile, input, nodes, abort>>

Next == Construct \/ Prove \/ VerifyProof \/ Verify

Spec == Init /\ [][Next]_vars
\* ----------------------------------------------------------------- claims
Built == phase \in {"built", "proved", "done"}

Leaves == [k \in 1..Len(input) |-> hash_data(input[k])]

CountInternal == Len(nodes) - Len(input)

OddLeaves == Len(input) >= 3 /\ Len(input) % 2 = 1

\* C1: for a tree of two or more blocks, prove on a block of the input
\* returns a proof, and verify_proof of that block with that proof against
\* the tree's root is true.
C1_ProofRoundTrip ==
    (Len(input) >= 2 /\ call.op \in {"prove", "verify_proof"}
        /\ call.proved \in Range(input))
    => /\ call.proof.kind = "Some"
       /\ (call.op = "verify_proof" /\ call.data = call.proved)
            => call.result = "true"

\* C2: a proof prove returned for one block of the input fails verify_proof
\* against the tree's root for every different block of the input.
C2_CrossIndexRejection ==
    (call.op = "verify_proof" /\ call.proved \in Range(input)
        /\ call.data \in Range(input) /\ call.data # call.proved)
    => call.result = "false"

C2_Witness ==
    /\ call.op = "verify_proof"
    /\ Len(input) >= 3
    /\ call.proved \in Range(input)
    /\ call.data \in Range(input)
    /\ call.data # call.proved
    /\ Len(call.proof.hashes) >= 2
    /\ call.result = "false"

\* C3: construct of a non-empty block sequence does not abort, and verify of
\* the same sequence against the constructed root is true.
C3_RootRoundTrip ==
    /\ (phase # "new" /\ Len(input) >= 1) => (abort = "none" /\ phase # "aborted")
    /\ (call.op = "verify" /\ call.blocks = input) => call.result = "true"

C3_Witness ==
    /\ call.op = "verify"
    /\ call.blocks = input
    /\ Len(input) = MaxLeaves
    /\ abort = "none"
    /\ call.result = "true"

OneBlockDiffers(a, b) ==
    /\ Len(a) = Len(b)
    /\ Cardinality({k \in 1..Len(a) : a[k] # b[k]}) = 1

\* C4: verify of a sequence that differs from the constructed one in exactly
\* one block is false.
C4_RootSensitivity ==
    (call.op = "verify" /\ OneBlockDiffers(call.blocks, input))
    => call.result = "false"

C4_Witness ==
    /\ call.op = "verify"
    /\ OddLeaves
    /\ OneBlockDiffers(call.blocks, input)
    /\ call.blocks[Len(input)] # input[Len(input)]
    /\ call.result = "false"

\* C5: prove on data that is not a block of the input returns None.
C5_AbsentForNonMembers ==
    (call.op = "prove" /\ call.data \notin Range(input))
    => call.proof.kind = "None"

\* C6: construct returns a tree for every block sequence, the empty one
\* included, and the tree has at least one node.
C6_ConstructTotal ==
    phase # "new" => (abort = "none" /\ phase # "aborted" /\ Len(nodes) >= 1)

\* The root of a level under the pairing rule, the unpaired node carried as
\* it is.
RECURSIVE CarriedRoot(_)
CarriedRoot(lvl) ==
    IF Len(lvl) = 1 THEN lvl[1]
    ELSE CarriedRoot([k \in 1..((Len(lvl) + 1) \div 2) |->
            IF 2 * k <= Len(lvl)
            THEN hash_data(lvl[2 * k - 1] \o lvl[2 * k])
            ELSE lvl[2 * k - 1]])

\* The same with the unpaired node carried as its digest.
RECURSIVE RehashedRoot(_)
RehashedRoot(lvl) ==
    IF Len(lvl) = 1 THEN lvl[1]
    ELSE RehashedRoot([k \in 1..((Len(lvl) + 1) \div 2) |->
            IF 2 * k <= Len(lvl)
            THEN hash_data(lvl[2 * k - 1] \o lvl[2 * k])
            ELSE hash_data(lvl[2 * k - 1])])

\* C7 as stated: with an odd number of leaves the unpaired last leaf is
\* carried to the level above as its digest, and the root is the root under
\* that rule (for three leaves Digest(Digest(l0 || l1) || Digest(l2))).
C7_PromotionRehashes ==
    (Built /\ OddLeaves)
    => /\ At(nodes, CountInternal - 1) = hash_data(Leaves[Len(Leaves)])
       /\ root(nodes) = RehashedRoot(Leaves)
       /\ Len(input) = 3
            => root(nodes) = hash_concat(hash_concat(Leaves[1], Leaves[2]),
                                         hash_data(Leaves[3]))

\* C7 amended: the unpaired last node of an odd level is carried to the level
\* above unchanged, and the root is the root under that rule (for three
\* leaves Digest(Digest(l0 || l1) || l2)).
C7_PromotionCarries ==
    /\ (Built /\ OddLeaves)
        => /\ At(nodes, CountInternal - 1) = Leaves[Len(Leaves)]
           /\ Len(input) = 3
                => root(nodes) = hash_concat(hash_concat(Leaves[1], Leaves[2]),
                                             Leaves[3])
    /\ Built => root(nodes) = CarriedRoot(Leaves)

C7_Witness ==
    /\ Built
    /\ Len(input) = 3
    /\ input[1] # input[2]
    /\ At(nodes, 2) = Leaves[3]
    /\ At(nodes, 2) # hash_data(Leaves[3])

\* C8: every index below the leaf region whose two children lie inside the
\* array holds the digest of its left child followed by its right child.
C8_HeapLayout ==
    Built =>
        \A i \in 0..(CountInternal - 1) :
            2 * i + 2 < Len(nodes)
            => At(nodes, i) = hash_concat(At(nodes, 2 * i + 1), At(nodes, 2 * i + 2))

\* C9: prove never indexes the node array out of range, whatever the data.
C9_ProveInBounds ==
    call.op \in {"prove", "verify_proof"} => call.proof.kind # "panic"

C9_Witness ==
    /\ call.op = "prove"
    /\ OddLeaves
    /\ call.data = input[Len(input)]
    /\ At(nodes, Len(nodes) - 1) = hash_data(call.data)
    /\ (Len(nodes) - 1) % 2 = 1
    /\ call.proof.kind = "Some"

\* C10: verify against the constructed root is true only for the constructed
\* block sequence.
C10_RootBindsSequence ==
    (call.op = "verify" /\ call.result = "true") => call.blocks = input
====
